---- MODULE Spec2Model ----
(***************************************************************************)
(* A model of app/services/resumeio.py: the ResumeioDownloader dataclass,  *)
(* its identifier normalisation (__post_init__) and its run() pipeline     *)
(* (metadata fetch, image address derivation, searchable / plain page      *)
(* composition, serialisation).                                            *)
(*                                                                         *)
(* Strings are sequences of one-character strings.  An optional value      *)
(* (Python None or a value) is a sequence of length at most one.  Page     *)
(* sizes after scaling are exact rationals <<numerator, denominator>>      *)
(* with a positive denominator; the float rounding of the interpreter is   *)
(* not modelled.                                                           *)
(***************************************************************************)
EXTENDS Integers, Sequences, FiniteSets, TLC

VARIABLES
    resume_id,    \* self.resume_id
    pc,           \* position of the object: "new", "invalid", "idle", and the steps of run()
    error,        \* the exception that ended construction or the current run()
    runs,         \* number of run() invocations on this object so far
    searchable,   \* the argument of the current run()
    response,     \* the reply to the metadata request (local `request`)
    metadata,     \* self.metadata
    images_urls,  \* self.images_urls
    target,       \* the viewport read from metadata[0] (target_w, target_h / w, h)
    i,            \* the index enumerate() hands out next, 1-based here
    writer,       \* the pages of the PdfWriter, searchable mode
    pdf,          \* the pages of the FPDF document, plain mode
    file,         \* the file /files/file.png
    written,      \* whether the current run() has created or written the file
    fetchLog,     \* one entry per image request of the current run(), in order
    buffer        \* what run() returns (self.buffer)

vars == <<resume_id, pc, error, runs, searchable, response, metadata, images_urls,
          target, i, writer, pdf, file, written, fetchLog, buffer>>

\* ------------------------------------------------------------------ bounds

MaxPages == 2
MaxRuns == 2

\* ------------------------------------------------------------- option, errors

None == << >>
Some(x) == << x >>

NoError == [kind |-> "none", status_code |-> 0, detail |-> << >>]
Raised(kind) == [kind |-> kind, status_code |-> 0, detail |-> << >>]

\* HTTPException(status_code=400, detail=f"Invalid resume id: {self.resume_id}")
InvalidIdStatus == 400
InvalidResumeId(s) == [kind |-> "HTTPException", status_code |-> InvalidIdStatus, detail |-> s]

\* ------------------------------------------------------------------ strings

Lower == {"a","b","c","d","e","f","g","h","i","j","k","l","m",
          "n","o","p","q","r","s","t","u","v","w","x","y","z"}
Upper == {"A","B","C","D","E","F","G","H","I","J","K","L","M",
          "N","O","P","Q","R","S","T","U","V","W","X","Y","Z"}
Digit == {"0","1","2","3","4","5","6","7","8","9"}

\* the character class [a-zA-Z0-9]
IsAlnum(c) == c \in Lower \cup Upper \cup Digit

\* the repetition count {9} of both patterns
TokenLen == 9

Min(S) == CHOOSE x \in S : \A y \in S : x <= y

\* `$` without re.MULTILINE: the end of the string, or just before a newline
\* that is the last character of the string.  p is the position after the match.
DollarMatchesAt(s, p) ==
    \/ p = Len(s) + 1
    \/ p = Len(s) /\ s[p] = "\n"

\* [a-zA-Z0-9]{9} starting at position p
AlnumRunAt(s, p) ==
    /\ p >= 1
    /\ p + TokenLen - 1 <= Len(s)
    /\ \A k \in 0..(TokenLen - 1) : IsAlnum(s[p + k])

\* pattern_id.search(s) for r"^[a-zA-Z0-9]{9}$": `^` anchors the match at the start
PatternIdMatches(s) ==
    /\ AlnumRunAt(s, 1)
    /\ DollarMatchesAt(s, TokenLen + 1)

\* the look-behind (?<=resume.io/r/): the dot is unescaped, so it matches any
\* character but a newline
AnyChar == "ANY"
LookBehind == <<"r","e","s","u","m","e",AnyChar,"i","o","/","r","/">>
PatCharMatches(p, c) == IF p = AnyChar THEN c # "\n" ELSE c = p

LookBehindAt(s, p) ==
    /\ p - Len(LookBehind) >= 1
    /\ \A k \in 1..Len(LookBehind) : PatCharMatches(LookBehind[k], s[p - Len(LookBehind) + k - 1])

\* the start positions at which pattern_url matches
PatternUrlStarts(s) == {p \in 1..Len(s) : LookBehindAt(s, p) /\ AlnumRunAt(s, p)}

\* pattern_url.search(s).group(0): the leftmost match, None without one
PatternUrlSearch(s) ==
    IF PatternUrlStarts(s) = {} THEN None
    ELSE LET p == Min(PatternUrlStarts(s)) IN Some(SubSeq(s, p, p + TokenLen - 1))

\* ------------------------------------------------------------ inputs: identifiers

TokenA == <<"a","b","c","1","2","3","X","Y","Z">>
TokenB == <<"Q","r","s","7","8","9","t","u","V">>
Https == <<"h","t","t","p","s",":","/","/">>
ResumeIo == <<"r","e","s","u","m","e",".","i","o","/","r","/">>

IdBefore == { << >>, Https, <<"w","w","w",".">>, <<"\n">> }
IdHost == { << >>, ResumeIo,
            <<"r","e","s","u","m","e","X","i","o","/","r","/">>,
            <<"r","e","s","u","m","e","\n","i","o","/","r","/">>,
            <<"r","e","s","u","m","e",".","i","o","/","x","/">> }
IdToken == { TokenA, TokenB,
             SubSeq(TokenA, 1, TokenLen - 1),
             TokenA \o <<"d">>,
             <<"a","b","c","1","-","3","X","Y","Z">> }
IdAfter == { << >>, <<"\n">>, <<"/">>, <<"/","e","d","i","t">>, <<"\n","\n">>, <<" ">> }

IdInputs == { b \o h \o t \o a : b \in IdBefore, h \in IdHost, t \in IdToken, a \in IdAfter }

\* the identifiers the pipeline is run with
RunInputs == { TokenA, Https \o ResumeIo \o TokenB \o <<"/","e","d","i","t">>, <<"x">> }

\* ------------------------------------------------------------ inputs: metadata

\* links of a page: {left, top, width, height, url}
LinkA == [left |-> 10, top |-> 20, width |-> 100, height |-> 50, url |-> "https://a.example"]
LinkB == [left |-> 30, top |-> 45, width |-> 60, height |-> 15, url |-> "https://b.example"]

\* entries of the `pages` array: {viewport: {width, height}, links: [...]}
PageEntries ==
    { [viewport |-> [width |-> 500, height |-> 700], links |-> <<LinkA, LinkB>>],
      [viewport |-> [width |-> 700, height |-> 500], links |-> <<LinkB>>],
      [viewport |-> [width |-> 500, height |-> 700], links |-> << >>] }

SeqsUpTo(S, n) == UNION { [1..k -> S] : k \in 0..n }

MetadataLists == SeqsUpTo(PageEntries, MaxPages)

\* the body of the metadata reply: text that is not JSON, a JSON object without
\* a "pages" member, or a JSON object whose "pages" member is a list of entries
Bodies ==
    { [wellFormed |-> FALSE, hasPages |-> FALSE, pages |-> << >>],
      [wellFormed |-> TRUE, hasPages |-> FALSE, pages |-> << >>] }
    \cup { [wellFormed |-> TRUE, hasPages |-> TRUE, pages |-> m] : m \in MetadataLists }

\* requests.get returns the reply whatever its status code
Responses == [status_code : {200, 500}, text : Bodies]

\* the page sizes the OCR engine may give its one-page document
OcrSizes == { [width |-> 612, height |-> 792], [width |-> 1000, height |-> 400] }

\* ------------------------------------------------------------ fields, helpers

Extension == "png"
ImageSize == 1800
CacheDate == "cache_date"

\* IMAGE_URL.format(...): the address is determined by the five values it embeds
ImageUrl(rid, page_id) ==
    [resume_id |-> rid, page_id |-> page_id, extension |-> Extension,
     cache_date |-> CacheDate, image_size |-> ImageSize]

\* the page ids had the range been range(len(self.metadata)): they start at 0
PageIdsFromZero(n) == [k \in 1..n |-> k - 1]
\* range(1, 1 + len(self.metadata)) as the list of page ids
PageIds(n) == [k \in 1..n |-> k]

\* json.loads(request.text).get("pages"): None when the object has no such member
JsonGetPages(body) == IF body.hasPages THEN Some(body.pages) ELSE None

\* exact rationals <<n, d>>, d > 0
RatLeq(a, b) == a[1] * b[2] <= b[1] * a[2]
RatEq(a, b) == a[1] * b[2] = b[1] * a[2]
RatOfInt(n) == <<n, 1>>
RatTimesInt(a, n) == <<a[1] * n, a[2]>>

\* min(target_h/h, target_w/w)
ScaleFactor(target_w, target_h, w, h) ==
    IF RatLeq(<<target_h, h>>, <<target_w, w>>) THEN <<target_h, h>> ELSE <<target_w, w>>

\* page.scale_by(scale_factor) on the OCR page of size ocr, for the target viewport
ScaledPage(url, ocr, tgt) ==
    LET sf == ScaleFactor(tgt.width, tgt.height, ocr.width, ocr.height) IN
    [src |-> url, ocr |-> ocr, scale |-> sf,
     width |-> RatTimesInt(sf, ocr.width), height |-> RatTimesInt(sf, ocr.height),
     annots |-> << >>]

\* the annotation had the rectangle been given as (x, y, width, height)
ExtentAsCornerAnnotation(link) ==
    [rect |-> <<link.left, link.top, link.width, link.height>>, url |-> link.url]
\* AnnotationBuilder.link(rect=(x, y, x + width, y + height), url=url)
LinkAnnotation(link) ==
    [rect |-> <<link.left, link.top, link.left + link.width, link.top + link.height>>,
     url |-> link.url]

\* pdf.link(x=left, y=h - top, w=width, h=height, link=url)
FpdfLink(link, h) ==
    [x |-> link.left, y |-> h - link.top, w |-> link.width, h |-> link.height, link |-> link.url]

NoFile == [exists |-> FALSE, content |-> None, complete |-> FALSE]
NoTarget == [width |-> 0, height |-> 0]

\* ------------------------------------------------------------------ state

TypeOK ==
    /\ pc \in {"new", "invalid", "idle", "meta", "urls", "generate", "page", "done", "failed"}
    /\ runs \in 0..MaxRuns
    /\ searchable \in BOOLEAN
    /\ written \in BOOLEAN
    /\ Len(metadata) <= 1
    /\ Len(buffer) <= 1
    /\ Len(response) <= 1

InitWith(inputs) ==
    /\ resume_id \in inputs
    /\ pc = "new"
    /\ error = NoError
    /\ runs = 0
    /\ searchable = TRUE
    /\ response = None
    /\ metadata = None
    /\ images_urls = << >>
    /\ target = NoTarget
    /\ i = 1
    /\ writer = << >>
    /\ pdf = << >>
    /\ file = NoFile
    /\ written = FALSE
    /\ fetchLog = << >>
    /\ buffer = None

Init == InitWith(RunInputs)
InitId == InitWith(IdInputs)

\* ------------------------------------------------------------------ construction

\* __post_init__: the dataclass has stored the argument in self.resume_id
PostInit ==
    /\ pc = "new"
    /\ IF PatternIdMatches(resume_id)
         THEN /\ pc' = "idle"
              /\ UNCHANGED <<resume_id, error>>
       ELSE IF PatternUrlSearch(resume_id) # None
         THEN /\ resume_id' = PatternUrlSearch(resume_id)[1]
              /\ pc' = "idle"
              /\ UNCHANGED error
       ELSE /\ error' = InvalidResumeId(resume_id)
            /\ pc' = "invalid"
            /\ UNCHANGED resume_id
    /\ UNCHANGED <<runs, searchable, response, metadata, images_urls, target, i,
                   writer, pdf, file, written, fetchLog, buffer>>

\* ------------------------------------------------------------------ run()

Fail(kind) ==
    /\ pc' = "failed"
    /\ error' = Raised(kind)

\* run(searchable) is called on a constructed object whose earlier call, if any,
\* has returned or raised.  The locals of the call start afresh.  self.metadata
\* and self.buffer of an earlier call are dead values: lines 85, 147 and 167
\* assign them before lines 89-162 and 78 read them, so the call starts with
\* them cleared.  self.images_urls and the file are kept as they are.
Run ==
    /\ pc \in {"idle", "done", "failed"}
    /\ runs < MaxRuns
    /\ runs' = runs + 1
    /\ searchable' \in BOOLEAN
    /\ pc' = "meta"
    /\ error' = NoError
    /\ response' = None
    /\ metadata' = None
    /\ target' = NoTarget
    /\ i' = 1
    /\ writer' = << >>
    /\ pdf' = << >>
    /\ written' = FALSE
    /\ fetchLog' = << >>
    /\ buffer' = None
    /\ UNCHANGED <<resume_id, images_urls, file>>

\* _get_resume_metadata: the request raises, or a reply comes back and its text
\* is parsed; the status code of the reply is not looked at
GetResumeMetadata ==
    /\ pc = "meta"
    /\ \/ /\ Fail("ConnectionError")
          /\ UNCHANGED <<response, metadata>>
       \/ \E r \in Responses :
            /\ response' = Some(r)
            /\ IF ~r.text.wellFormed
                 THEN /\ Fail("JSONDecodeError")
                      /\ UNCHANGED metadata
                 ELSE /\ metadata' = JsonGetPages(r.text)
                      /\ pc' = "urls"
                      /\ UNCHANGED error
    /\ UNCHANGED <<resume_id, runs, searchable, images_urls, target, i, writer, pdf,
                   file, written, fetchLog, buffer>>

\* _format_images_urls: len(None) raises TypeError; otherwise one address per
\* page id is appended to self.images_urls
FormatImagesUrls ==
    /\ pc = "urls"
    /\ IF metadata = None
         THEN /\ Fail("TypeError")
              /\ UNCHANGED images_urls
         ELSE /\ images_urls' = images_urls \o
                     [k \in 1..Len(metadata[1]) |->
                         ImageUrl(resume_id, PageIds(Len(metadata[1]))[k])]
              /\ pc' = "generate"
              /\ UNCHANGED error
    /\ UNCHANGED <<resume_id, runs, searchable, response, metadata, target, i, writer,
                   pdf, file, written, fetchLog, buffer>>

\* the viewport both composers size every page with: that of the first entry
TargetViewport(pages) == pages[1].viewport

\* lines 101-102 and 153-156: metadata[0] raises IndexError on an empty list
GenerateBegin ==
    /\ pc = "generate"
    /\ IF metadata[1] = << >>
         THEN /\ Fail("IndexError")
              /\ UNCHANGED target
         ELSE /\ target' = TargetViewport(metadata[1])
              /\ pc' = "page"
              /\ UNCHANGED error
    /\ i' = 1
    /\ UNCHANGED <<resume_id, runs, searchable, response, metadata, images_urls, writer,
                   pdf, file, written, fetchLog, buffer>>

\* writer.add_annotation(page_number, annotation); pages are counted from 1 here
AddAnnotation(w, page_number, annotation) ==
    [w EXCEPT ![page_number].annots = Append(@, annotation)]

\* the loop of lines 132-141 over the links of one metadata entry
RECURSIVE AddLinks(_, _, _)
AddLinks(w, page_number, links) ==
    IF links = << >> THEN w
    ELSE AddLinks(AddAnnotation(w, page_number, LinkAnnotation(Head(links))),
                  page_number, Tail(links))

LogEntry(url, existed, read) == [url |-> url, fileAtFetch |-> existed, ocrRead |-> read]

\* one iteration of the loop of _generate_pdf_searchable (lines 103-141)
SearchablePage ==
    /\ pc = "page"
    /\ searchable
    /\ i <= Len(images_urls)
    /\ LET url == images_urls[i]
           bytes == [exists |-> TRUE, content |-> Some(url), complete |-> TRUE]
       IN
       \/ \* requests.get(image_url) raises
          /\ Fail("RequestException")
          /\ fetchLog' = Append(fetchLog, LogEntry(url, file.exists, None))
          /\ UNCHANGED <<file, written, writer, i>>
       \/ \* open() raises: the file is left as it was
          /\ Fail("OSError")
          /\ fetchLog' = Append(fetchLog, LogEntry(url, file.exists, None))
          /\ UNCHANGED <<file, written, writer, i>>
       \/ \* f.write() raises: the file has been created or truncated
          /\ Fail("OSError")
          /\ file' = [exists |-> TRUE, content |-> Some(url), complete |-> FALSE]
          /\ written' = TRUE
          /\ fetchLog' = Append(fetchLog, LogEntry(url, file.exists, None))
          /\ UNCHANGED <<writer, i>>
       \/ \* the OCR engine, or reading its output, raises
          /\ Fail("TesseractError")
          /\ file' = bytes
          /\ written' = TRUE
          /\ fetchLog' = Append(fetchLog, LogEntry(url, file.exists, bytes.content))
          /\ UNCHANGED <<writer, i>>
       \/ \E ocr \in OcrSizes :
            LET page == ScaledPage(bytes.content[1], ocr, target) IN
            /\ file' = bytes
            /\ written' = TRUE
            /\ fetchLog' = Append(fetchLog, LogEntry(url, file.exists, bytes.content))
            /\ IF i > Len(metadata[1])
                 THEN \* the page is added, then self.metadata[i] raises
                      /\ writer' = Append(writer, page)
                      /\ Fail("IndexError")
                      /\ UNCHANGED i
                 ELSE \* add_annotation(page_number=i, ...) for each link in order
                      /\ writer' = AddLinks(Append(writer, page), i, metadata[1][i].links)
                      /\ i' = i + 1
                      /\ UNCHANGED <<pc, error>>
    /\ UNCHANGED <<resume_id, runs, searchable, response, metadata, images_urls, target,
                   pdf, buffer>>

\* lines 143-147: the file is removed once, after the loop, then the writer is
\* serialised
SearchableFinish ==
    /\ pc = "page"
    /\ searchable
    /\ i > Len(images_urls)
    /\ IF ~file.exists
         THEN /\ Fail("FileNotFoundError")
              /\ UNCHANGED <<file, buffer>>
         ELSE /\ file' = NoFile
              /\ \/ /\ Fail("PdfWriteError")
                    /\ UNCHANGED buffer
                 \/ /\ buffer' = Some([producer |-> "pypdf", pages |-> writer])
                    /\ pc' = "done"
                    /\ UNCHANGED error
    /\ UNCHANGED <<resume_id, runs, searchable, response, metadata, images_urls, target,
                   i, writer, pdf, written, fetchLog>>

\* pdf.add_page() with the format (w, h) given to FPDF, and pdf.image(url, w=w, h=h)
FpdfPage(url, w, h) ==
    [width |-> w, height |-> h,
     image |-> [src |-> url, w |-> w, h |-> h],
     links |-> << >>]

\* one iteration of the loop of _generate_pdf (lines 158-166)
PlainPage ==
    /\ pc = "page"
    /\ ~searchable
    /\ i <= Len(images_urls)
    /\ LET url == images_urls[i]
           page == FpdfPage(url, target.width, target.height)
       IN
       \/ \* pdf.image fetches the address itself, and raises
          /\ Fail("RequestException")
          /\ pdf' = Append(pdf, [page EXCEPT !.image = [src |-> url, w |-> 0, h |-> 0]])
          /\ UNCHANGED i
       \/ /\ IF i > Len(metadata[1])
               THEN /\ pdf' = Append(pdf, page)
                    /\ Fail("IndexError")
                    /\ UNCHANGED i
               ELSE /\ pdf' = Append(pdf,
                          [page EXCEPT !.links =
                              [k \in 1..Len(metadata[1][i].links) |->
                                  FpdfLink(metadata[1][i].links[k], target.height)]])
                    /\ i' = i + 1
                    /\ UNCHANGED <<pc, error>>
    /\ fetchLog' = Append(fetchLog, LogEntry(images_urls[i], file.exists, None))
    /\ UNCHANGED <<resume_id, runs, searchable, response, metadata, images_urls, target,
                   writer, file, written, buffer>>

\* line 167: pdf.output(dest="S")
PlainFinish ==
    /\ pc = "page"
    /\ ~searchable
    /\ i > Len(images_urls)
    /\ buffer' = Some([producer |-> "fpdf", pages |-> pdf])
    /\ pc' = "done"
    /\ UNCHANGED <<resume_id, error, runs, searchable, response, metadata, images_urls,
                   target, i, writer, pdf, file, written, fetchLog>>

Next ==
    \/ PostInit
    \/ Run
    \/ GetResumeMetadata
    \/ FormatImagesUrls
    \/ GenerateBegin
    \/ SearchablePage
    \/ SearchableFinish
    \/ PlainPage
    \/ PlainFinish

Spec == Init /\ [][Next]_vars

\* construction alone, over the identifier inputs
NextId == PostInit

SpecId == InitId /\ [][NextId]_vars

\* ------------------------------------------------------------------ properties

ExpectedUrl(k) == ImageUrl(resume_id, k)

\* C1: a successful first run() over N >= 1 metadata entries requests the N page
\* images in ascending order and emits exactly N pages; page k shows the image of
\* address k and carries the links of metadata entry k, none skipped, repeated
\* or reordered.
C1_PagesInMetadataOrder ==
    (pc = "done" /\ runs = 1) =>
        LET m == metadata[1]
            out == buffer[1].pages
        IN
        /\ Len(m) >= 1
        /\ Len(out) = Len(m)
        /\ Len(fetchLog) = Len(m)
        /\ \A k \in 1..Len(m) :
             /\ fetchLog[k].url = ExpectedUrl(k)
             /\ IF searchable
                  THEN /\ out[k].src = ExpectedUrl(k)
                       /\ [j \in 1..Len(out[k].annots) |-> out[k].annots[j].url]
                            = [j \in 1..Len(m[k].links) |-> m[k].links[j].url]
                  ELSE /\ out[k].image.src = ExpectedUrl(k)
                       /\ [j \in 1..Len(out[k].links) |-> out[k].links[j].link]
                            = [j \in 1..Len(m[k].links) |-> m[k].links[j].url]

C1_Witness ==
    /\ pc = "done"
    /\ runs = 1
    /\ ~searchable
    /\ Len(metadata[1]) >= 2
    /\ metadata[1][1].links # metadata[1][2].links

\* C2 (as claimed): in plain mode every output page k has the width and height of
\* the viewport of metadata entry k, and its image fills exactly that rectangle.
C2_Claim_OwnViewport ==
    (pc = "done" /\ ~searchable) =>
        LET m == metadata[1]
            out == buffer[1].pages
        IN
        /\ Len(out) = Len(m)
        /\ \A k \in 1..Len(m) :
             /\ out[k].width = m[k].viewport.width
             /\ out[k].height = m[k].viewport.height
             /\ out[k].image.w = m[k].viewport.width
             /\ out[k].image.h = m[k].viewport.height

\* C3 (as claimed): in plain mode page k carries, for each link of metadata entry
\* k in order, one rectangle at (left, height of the viewport of entry k - top)
\* with the link's width, height and url.
C3_Claim_FlippedByOwnHeight ==
    (pc = "done" /\ ~searchable) =>
        LET m == metadata[1]
            out == buffer[1].pages
        IN
        /\ Len(out) = Len(m)
        /\ \A k \in 1..Len(m) :
             out[k].links =
                [j \in 1..Len(m[k].links) |->
                    [x |-> m[k].links[j].left,
                     y |-> m[k].viewport.height - m[k].links[j].top,
                     w |-> m[k].links[j].width,
                     h |-> m[k].links[j].height,
                     link |-> m[k].links[j].url]]

\* C4: in searchable mode every page that has a metadata entry carries exactly
\* the annotations of that entry's links, in order, each with the rectangle
\* (left, top, left + width, top + height) and the link's url; a finished
\* document has one page per entry.
C4_AnnotationsUnflipped ==
    (searchable /\ pc \in {"page", "done", "failed"} /\ metadata # None) =>
        LET m == metadata[1] IN
        /\ \A k \in 1..Len(writer) :
             k <= Len(m) =>
                writer[k].annots =
                    [j \in 1..Len(m[k].links) |->
                        [rect |-> <<m[k].links[j].left,
                                    m[k].links[j].top,
                                    m[k].links[j].left + m[k].links[j].width,
                                    m[k].links[j].top + m[k].links[j].height>>,
                         url |-> m[k].links[j].url]]
        /\ pc = "done" => /\ buffer[1].pages = writer
                          /\ Len(writer) = Len(m)

C4_Witness ==
    /\ pc = "done"
    /\ searchable
    /\ Len(writer) = 2
    /\ Len(writer[1].annots) = 1
    /\ Len(writer[2].annots) = 2

\* C5 (as claimed): in searchable mode every page is scaled by
\* min(targetHeight / sourceHeight, targetWidth / sourceWidth) for the viewport of
\* its own metadata entry, fits inside that viewport, and touches it on an axis.
C5_Claim_FitsOwnViewport ==
    (searchable /\ pc \in {"page", "done", "failed"} /\ metadata # None) =>
        LET m == metadata[1] IN
        \A k \in 1..Len(writer) :
            k <= Len(m) =>
                LET tv == m[k].viewport
                    pg == writer[k]
                IN
                /\ RatEq(pg.scale,
                         IF RatLeq(<<tv.height, pg.ocr.height>>, <<tv.width, pg.ocr.width>>)
                           THEN <<tv.height, pg.ocr.height>>
                           ELSE <<tv.width, pg.ocr.width>>)
                /\ RatLeq(pg.width, RatOfInt(tv.width))
                /\ RatLeq(pg.height, RatOfInt(tv.height))
                /\ \/ RatEq(pg.width, RatOfInt(tv.width))
                   \/ RatEq(pg.height, RatOfInt(tv.height))

\* C6 (as claimed): when a searchable run() ends, by return or by exception, the
\* file it wrote no longer exists.
C6_Claim_FileRemovedAtEnd ==
    (searchable /\ pc \in {"done", "failed"} /\ written) => ~file.exists

BadReply(r) == r.status_code >= 400 \/ ~r.text.wellFormed \/ ~r.text.hasPages

\* C7 (as claimed): after a metadata reply that is an HTTP error, is not JSON or
\* has no `pages`, run() fails: no page image is requested, no buffer is
\* produced and the call does not return.
C7_Claim_BadReplyAborts ==
    (response # None /\ BadReply(response[1])) =>
        /\ fetchLog = << >>
        /\ buffer = None
        /\ pc # "done"

\* C8 (as claimed): construction ends either with the invalid-identifier error
\* carrying the input, or with a stored identifier of exactly 9 alphanumeric
\* characters.
C8_Claim_BareToken ==
    pc # "new" =>
        \/ pc = "invalid" /\ error = InvalidResumeId(resume_id)
        \/ /\ pc # "invalid"
           /\ Len(resume_id) = TokenLen
           /\ \A k \in 1..Len(resume_id) : IsAlnum(resume_id[k])

\* C9 (as claimed): after the address derivation of any run(), the address list
\* is exactly the addresses of pages 1..N of that run's metadata, in order.
C9_Claim_OneAddressPerPage ==
    pc = "generate" =>
        images_urls = [k \in 1..Len(metadata[1]) |-> ExpectedUrl(k)]

\* C10 (as claimed): in searchable mode the file does not exist when the raster of
\* a page after the first is requested, and the OCR of a page reads the bytes
\* of that page.
C10_Claim_FileScopedPerPage ==
    searchable =>
        \A k \in 1..Len(fetchLog) :
            /\ k >= 2 => ~fetchLog[k].fileAtFetch
            /\ fetchLog[k].ocrRead # None => fetchLog[k].ocrRead = Some(fetchLog[k].url)

====
